---------------------------- MODULE Spec2Model ----------------------------
(***************************************************************************)
(* UCL_Matrix (ucl_matrix.h): one host buffer (UCL_H_Mat) and one device   *)
(* buffer (UCL_D_Mat) presented as a single 2D array.  The facade's        *)
(* operations are translated from ucl_matrix.h.  The buffer-level clear    *)
(* and zero of the host container are the definitions at lines 109-116 of  *)
(* that file; the other buffer operations (alloc, view, the device side's  *)
(* clear and zero) are not in the file and follow the buffer contract.     *)
(***************************************************************************)
EXTENDS Naturals, Integers, Sequences, FiniteSets, TLC

\* ------------------------------------------------------------------ bounds
MaxRows == 2
MaxCols == 2
\* storage handles of each memory space are 1..MaxStore; 0 is the null pointer
MaxStore == 2
\* values a caller writes are 1..MaxVal; 0 is the zero value
MaxVal == 2
\* element writes between two allocations
MaxWrites == 1
\* command queues of the program are 1..MaxQueue; 0 is "no queue"
MaxQueue == 2

\* --------------------------------------------------------------- constants
UCL_SUCCESS == "UCL_SUCCESS"
UCL_MEMORY_ERROR == "UCL_MEMORY_ERROR"
UCL_VIEW == "UCL_VIEW"
\* kind1: host pinning options, kind2: device usage options
HostKinds == {"UCL_RW_OPTIMIZED", "UCL_NOT_PINNED"}
DevKinds == {"UCL_READ_WRITE", "UCL_READ_ONLY"}

Stores == 1..MaxStore
Values == 1..MaxVal
\* An element is the set of values a read of it can return: one value once
\* it has been written or zeroed, any value while it is uninitialised.
Indet == 0..MaxVal

VARIABLES
  sameType,   \* ucl_same_type<hosttype,devtype>::ans, fixed per instantiation
  host,       \* UCL_H_Mat<hosttype> host: [kind, rows, cols, array]
  device,     \* UCL_D_Mat<devtype> device: [kind, rows, cols, array]
  hostHeap,   \* live storages of the host memory space
  devHeap,    \* live storages of the device memory space
  hostMem,    \* contents of the storage host.array points to
  devMem,     \* contents of the storage the device buffer owns
  valid,      \* the caller's view: the last alloc succeeded, no clear since
  everAlloc,  \* alloc has been called on this object
  nwrites,    \* element writes since the last alloc
  pre,        \* what the object was when the last operation was called
  last,       \* the last operation: name, arguments, result, buffer events
  queues,     \* the queue each buffer is bound to, the queues with work
              \* that may not have completed: [hostCq, devCq, pending]
  contexts    \* the command queues the calling program allocates on and
              \* whose work is followed; none when queues are left out

vars == <<sameType, host, device, hostHeap, devHeap, hostMem, devMem,
          valid, everAlloc, nwrites, pre, last, queues, contexts>>

\* ------------------------------------------------------------ helpers
RECURSIVE Count(_, _)
Count(s, x) ==
  IF s = <<>> THEN 0
  ELSE (IF Head(s) = x THEN 1 ELSE 0) + Count(Tail(s), x)

\* position of the first occurrence of x in s, 0 when absent
RECURSIVE IndexOf(_, _)
IndexOf(s, x) ==
  IF s = <<>> THEN 0
  ELSE IF Head(s) = x THEN 1
  ELSE LET r == IndexOf(Tail(s), x) IN IF r = 0 THEN 0 ELSE r + 1

Fresh(n) == [i \in 1..n |-> Indet]

\* the handle the allocator returns: the lowest one not in use
NewStore(heap) == CHOOSE id \in Stores \ heap : \A j \in Stores \ heap : id <= j

\* The machine: both buffers, both heaps, the contents, the error code of the
\* last buffer call and the buffer-level events issued so far in this call.
Machine == [host |-> host, device |-> device, hostHeap |-> hostHeap,
            devHeap |-> devHeap, hostMem |-> hostMem, devMem |-> devMem,
            err |-> UCL_SUCCESS, trace |-> <<>>]

\* a buffer-level event: the call, and the storage (memory space, handle) it
\* acquires, releases or writes; store 0 when it touches none
Emit(m, call, space, store) ==
  [m EXCEPT !.trace = Append(@, [call |-> call, space |-> space,
                                 store |-> store])]

\* how many events of a trace are the call c
CountCalls(tr, c) == Count([i \in 1..Len(tr) |-> tr[i].call], c)

\* position of the first event of a trace that is the call c, 0 when absent
FirstCall(tr, c) == IndexOf([i \in 1..Len(tr) |-> tr[i].call], c)

\* ------------------------------------------------------- host buffer
\* numel() of a buffer: a flat, unpadded store of rows*cols elements
BufNumel(b) == b.rows * b.cols

\* clear() without the test of _kind: frees whatever _array holds
HostClear_Unguarded(m) ==
  Emit([m EXCEPT !.host.rows = 0, !.host.kind = UCL_VIEW,
                 !.hostHeap = @ \ {m.host.array},
                 !.hostMem = <<>>],
       "host.free", "host", m.host.array)

\* clear() at ucl_matrix.h:110-111
\*   if (_kind!=UCL_VIEW) {_rows=0; _kind=UCL_VIEW; _host_free(*this,_kind);}
HostClear(m) ==
  IF m.host.kind # UCL_VIEW
  THEN Emit([m EXCEPT !.host.rows = 0, !.host.kind = UCL_VIEW,
                      !.hostHeap = @ \ {m.host.array},
                      !.hostMem = <<>>],
            "host.free", "host", m.host.array)
  ELSE m

\* host.alloc(rows,cols,cq,kind1): releases what the buffer holds, then
\* reserves rows*cols elements; a failure leaves the buffer cleared.
HostAlloc(m, rows, cols, kind, ok) ==
  LET c == HostClear(m)
      id == NewStore(c.hostHeap) IN
  IF ok
  THEN Emit([c EXCEPT !.host = [kind |-> kind, rows |-> rows, cols |-> cols,
                                array |-> id],
                      !.hostHeap = @ \cup {id},
                      !.hostMem = Fresh(rows * cols),
                      !.err = UCL_SUCCESS],
            "host.alloc", "host", id)
  ELSE Emit([c EXCEPT !.err = UCL_MEMORY_ERROR],
            "host.alloc_failed", "host", 0)

\* zero() at ucl_matrix.h:114: _host_zero(_array,_rows*row_bytes())
HostZero(m) ==
  Emit([m EXCEPT !.hostMem = [i \in 1..Len(@) |->
                                IF i <= BufNumel(m.host) THEN {0} ELSE @[i]]],
       "host.zero", "host", m.host.array)

\* zero(n) that ignores n and zeroes the whole store
HostZeroN_All(m, n) ==
  Emit([m EXCEPT !.hostMem = [i \in 1..Len(@) |-> {0}]],
       "host.zero", "host", m.host.array)

\* zero(n) at ucl_matrix.h:116: _host_zero(_array,n*sizeof(hosttype))
HostZeroN(m, n) ==
  Emit([m EXCEPT !.hostMem = [i \in 1..Len(@) |->
                                IF i <= n THEN {0} ELSE @[i]]],
       "host.zero", "host", m.host.array)

\* ----------------------------------------------------- device buffer
\* The device buffer owns its storage unless it is a view.
DeviceOwns(d) == d.kind # UCL_VIEW
\* The device buffer is bound as an alias of host storage.
DeviceIsView(d) == d.kind = UCL_VIEW /\ d.array # 0

\* device.clear(): releases the storage only when the buffer owns it (a view
\* owns nothing and frees nothing), unbinds an alias, resets the shape.
DeviceClear(m) ==
  LET c == [m EXCEPT !.device = [kind |-> UCL_VIEW, rows |-> 0, cols |-> 0,
                                 array |-> 0],
                     !.devMem = <<>>] IN
  IF DeviceOwns(m.device)
  THEN Emit([c EXCEPT !.devHeap = @ \ {m.device.array}],
            "device.free", "device", m.device.array)
  ELSE c

\* device.view(host): aliases the host buffer's storage; no storage is
\* requested; the shape is the host buffer's.
DeviceView(m) ==
  LET c == DeviceClear(m) IN
  Emit([c EXCEPT !.device = [kind |-> UCL_VIEW, rows |-> m.host.rows,
                             cols |-> m.host.cols, array |-> m.host.array],
                 !.err = UCL_SUCCESS],
       "device.view", "host", m.host.array)

\* device.alloc(rows,cols,cq,kind2): releases what the buffer holds, then
\* reserves rows*cols elements; a failure leaves the buffer cleared.
DeviceAlloc(m, rows, cols, kind, ok) ==
  LET c == DeviceClear(m)
      id == NewStore(c.devHeap) IN
  IF ok
  THEN Emit([c EXCEPT !.device = [kind |-> kind, rows |-> rows,
                                  cols |-> cols, array |-> id],
                      !.devHeap = @ \cup {id},
                      !.devMem = Fresh(rows * cols),
                      !.err = UCL_SUCCESS],
            "device.alloc", "device", id)
  ELSE Emit([c EXCEPT !.err = UCL_MEMORY_ERROR],
            "device.alloc_failed", "device", 0)

\* The alias of a view refers to storage that is still reserved and still
\* the host buffer's.
ViewIsLive(m) ==
  /\ DeviceIsView(m.device)
  /\ m.device.array \in m.hostHeap
  /\ m.host.kind # UCL_VIEW
  /\ m.host.array = m.device.array

\* device.zero(n): zeroes the first n elements of the storage the buffer
\* addresses: its own, or, for a view, the aliased host storage.
DeviceZeroN(m, n) ==
  IF DeviceOwns(m.device)
  THEN Emit([m EXCEPT !.devMem = [i \in 1..Len(@) |->
                                    IF i <= n THEN {0} ELSE @[i]]],
            "device.zero", "device", m.device.array)
  ELSE IF ViewIsLive(m)
  THEN Emit([m EXCEPT !.hostMem = [i \in 1..Len(@) |->
                                     IF i <= n THEN {0} ELSE @[i]]],
            "device.zero", "host", m.device.array)
  ELSE Emit(m, "device.zero", "host", m.device.array)

\* device.zero(): every element
DeviceZero(m) == DeviceZeroN(m, BufNumel(m.device))

\* ------------------------------------------------------------ UCL_Matrix
\* the view branch never taken
UseView_Never(same, shared) == FALSE

\* UseView with || in place of &&
UseView_Or(same, shared) == same \/ shared

\* ucl_matrix.h:102  ucl_same_type<hosttype,devtype>::ans &&
\*                   device.shared_memory()
UseView(same, shared) == same /\ shared

\* Alloc without the test of e1: the device step runs whatever the host
\* allocation returned (as the constructor at ucl_matrix.h:53-57 does)
Alloc_NoCheck(m, same, rows, cols, shared, kind1, kind2, hostOk, devOk) ==
  LET m1 == HostAlloc(m, rows, cols, kind1, hostOk) IN
  IF same /\ shared
  THEN [DeviceView(m1) EXCEPT !.err = UCL_SUCCESS]
  ELSE DeviceAlloc(m1, rows, cols, kind2, devOk)

\* Alloc with rows and cols exchanged in the host allocation
Alloc_Swapped(m, same, rows, cols, shared, kind1, kind2, hostOk, devOk) ==
  LET m1 == HostAlloc(m, cols, rows, kind1, hostOk) IN
  IF m1.err # UCL_SUCCESS
  THEN m1
  ELSE IF same /\ shared
  THEN [DeviceView(m1) EXCEPT !.err = UCL_SUCCESS]
  ELSE DeviceAlloc(m1, rows, cols, kind2, devOk)

\* Alloc with rows and cols exchanged in the device allocation
Alloc_DevSwap(m, same, rows, cols, shared, kind1, kind2, hostOk, devOk) ==
  LET m1 == HostAlloc(m, rows, cols, kind1, hostOk) IN
  IF m1.err # UCL_SUCCESS
  THEN m1
  ELSE IF same /\ shared
  THEN [DeviceView(m1) EXCEPT !.err = UCL_SUCCESS]
  ELSE DeviceAlloc(m1, cols, rows, kind2, devOk)

\* ucl_matrix.h:96-107  alloc(rows, cols, UCL_Device &device, kind1, kind2)
Alloc(m, same, rows, cols, shared, kind1, kind2, hostOk, devOk) ==
  LET m1 == HostAlloc(m, rows, cols, kind1, hostOk) IN
  IF m1.err # UCL_SUCCESS
  THEN m1
  ELSE IF UseView(same, shared)
  THEN [DeviceView(m1) EXCEPT !.err = UCL_SUCCESS]
  ELSE DeviceAlloc(m1, rows, cols, kind2, devOk)

\* ucl_matrix.h:50-58  UCL_Matrix(rows, cols, UCL_Device &device, kind1, kind2)
\*   host.alloc(rows,cols,device,kind1);
\*   if (ucl_same_type<hosttype,devtype>::ans && device.shared_memory())
\*     device.view(host);
\*   else
\*     device.alloc(rows,cols,device,kind2);
\* The result of host.alloc is not looked at and nothing is returned.
Construct(m, same, rows, cols, shared, kind1, kind2, hostOk, devOk) ==
  LET m1 == HostAlloc(m, rows, cols, kind1, hostOk) IN
  IF UseView(same, shared)
  THEN DeviceView(m1)
  ELSE DeviceAlloc(m1, rows, cols, kind2, devOk)

\* clear() that forgets the device buffer
Clear_HostOnly(m) == HostClear(m)

\* ucl_matrix.h:119-120  clear() { host.clear(); device.clear(); }
Clear(m) == DeviceClear(HostClear(m))

\* zero() that zeroes through the host path only
Zero_HostOnly(m) == HostZero(m)

\* ucl_matrix.h:123  zero() { host.zero(); device.zero(); }
Zero(m) == DeviceZero(HostZero(m))

\* ucl_matrix.h:126  zero(n) { host.zero(n); device.zero(n); }
ZeroN(m, n) == DeviceZeroN(HostZeroN(m, n), n)

\* ucl_matrix.h:129-133  numel(), rows(), cols(): the host buffer's
numel == BufNumel(host)
rows == host.rows
cols == host.cols

\* operator()(row,col) in column-major order
FlatIndex_ColMajor(row, col) == col * rows + row

\* ucl_matrix.h:140-141  operator()(row,col) is host[row*_cols+col]
FlatIndex(row, col) == row * cols + col

\* operator[] off by one element
SetElement_OffByOne(m, i, v) == [m EXCEPT !.hostMem[i + 2] = {v}]

\* ucl_matrix.h:136  operator[](i) = v: the host buffer's element i
SetElement(m, i, v) == [m EXCEPT !.hostMem[i + 1] = {v}]

\* sync() that also releases the device buffer
Sync_Release(m) == DeviceClear(Emit(m, "host.sync", "host", 0))

\* sync() that waits for nothing
Sync_NoWait(m) == m

\* ucl_matrix.h:152  sync() { host.sync(); }
Sync(m) == Emit(m, "host.sync", "host", 0)

\* ucl_matrix.h:129-133, 147  numel(), rows(), cols(), host_ptr(): each
\* returns what the host buffer reports and calls nothing that writes
Query(m) == m

\* The command queues.  Each buffer is bound to the queue of the context of
\* its allocation; a view takes the queue of the buffer it views.  The
\* device-side zero is enqueued on the device buffer's queue and returns
\* without waiting; the host-side zero is done when it returns.  host.sync()
\* returns when the work on the host buffer's queue has completed.
QueueEvent(qs, ev, q) ==
  IF ev.call = "host.alloc" THEN [qs EXCEPT !.hostCq = q]
  ELSE IF ev.call = "device.alloc" THEN [qs EXCEPT !.devCq = q]
  ELSE IF ev.call = "device.view" THEN [qs EXCEPT !.devCq = qs.hostCq]
  ELSE IF ev.call = "device.zero"
  THEN [qs EXCEPT !.pending = @ \cup ({qs.devCq} \ {0})]
  ELSE IF ev.call = "host.sync" THEN [qs EXCEPT !.pending = @ \ {qs.hostCq}]
  ELSE qs

\* the queues after the buffer-level events of one call made with context q
RECURSIVE QueueAfter(_, _, _)
QueueAfter(qs, tr, q) ==
  IF tr = <<>> THEN qs
  ELSE QueueAfter(QueueEvent(qs, Head(tr), q), Tail(tr), q)

\* The disposition of the matrix, read off the device buffer.
Disposition ==
  IF DeviceIsView(device) THEN "VIEW"
  ELSE IF DeviceOwns(device) THEN "INDEPENDENT"
  ELSE "UNSET"

\* The element i (from 0) as the device-side accessor reads it: the set of
\* values the read can return.
DeviceCell(i) ==
  IF DeviceOwns(device) THEN devMem[i + 1] ELSE hostMem[i + 1]

\* The element i (from 0) as the host-side accessor reads it.
HostCell(i) == hostMem[i + 1]

\* ------------------------------------------------------------- actions
\* the queues after a call made with context q; they are followed only in a
\* program with command queues to follow
Observed(tr, q) ==
  IF contexts = {} THEN queues ELSE QueueAfter(queues, tr, q)

\* the contexts an allocation is tried with; 0 stands for the context of a
\* program whose queues are not followed
AllocContexts == IF contexts = {} THEN {0} ELSE contexts

\* the queues sync() finds with work that may still be running
WaitedFor == Cardinality(queues.pending \cap {queues.hostCq})

\* the object as an operation finds it: whether the operation before was
\* clear(), the caller's view, whether alloc was ever called, the disposition,
\* and whether the host buffer holds storage
Snapshot == [afterClear |-> last.op = "clear", valid |-> valid,
             everAlloc |-> everAlloc,
             disposition |-> Disposition, hostHeld |-> host.kind # UCL_VIEW]

Op(name, ret, r, c, shared, n, v, tr) ==
  [op |-> name, ret |-> ret, rows |-> r, cols |-> c, shared |-> shared,
   n |-> n, val |-> v, trace |-> tr]

Install(m) ==
  /\ host' = m.host
  /\ device' = m.device
  /\ hostHeap' = m.hostHeap
  /\ devHeap' = m.devHeap
  /\ hostMem' = m.hostMem
  /\ devMem' = m.devMem
  /\ pre' = Snapshot

Init ==
  /\ sameType \in BOOLEAN
  /\ host = [kind |-> UCL_VIEW, rows |-> 0, cols |-> 0, array |-> 0]
  /\ device = [kind |-> UCL_VIEW, rows |-> 0, cols |-> 0, array |-> 0]
  /\ hostHeap = {}
  /\ devHeap = {}
  /\ hostMem = <<>>
  /\ devMem = <<>>
  /\ valid = FALSE
  /\ everAlloc = FALSE
  /\ nwrites = 0
  /\ last = Op("construct", UCL_SUCCESS, 0, 0, FALSE, 0, 0, <<>>)
  /\ pre = [afterClear |-> FALSE, valid |-> FALSE, everAlloc |-> FALSE,
            disposition |-> "UNSET", hostHeld |-> FALSE]
  /\ queues = [hostCq |-> 0, devCq |-> 0, pending |-> {}]
  /\ contexts = {}

\* Inputs of alloc that the call does not consult are fixed at one value, so
\* that each outcome is generated once: the host's kind when the host
\* allocation fails, the device's outcome and kind when the device
\* allocation is not reached or fails.  No buffer is bound to the context's
\* queue when the host allocation fails.
Relevant(shared, kind1, kind2, hostOk, devOk) ==
  LET devReached == hostOk /\ ~UseView(sameType, shared) IN
  /\ IF hostOk THEN TRUE ELSE kind1 = "UCL_RW_OPTIMIZED"
  /\ IF devReached THEN TRUE ELSE devOk
  /\ IF devReached /\ devOk THEN TRUE ELSE kind2 = "UCL_READ_WRITE"

\* alloc with rows and cols drawn from Rows and Cols
AllocOf(Rows, Cols) ==
  \E shared \in BOOLEAN, hostOk \in BOOLEAN, devOk \in BOOLEAN,
     kind1 \in HostKinds, kind2 \in DevKinds :
    /\ Relevant(shared, kind1, kind2, hostOk, devOk)
    /\ \E r \in Rows, c \in Cols,
          q \in (IF hostOk THEN AllocContexts ELSE {0}) :
       \E m \in {Alloc(Machine, sameType, r, c, shared, kind1, kind2,
                        hostOk, devOk)} :
         /\ Install(m)
         /\ valid' = (m.err = UCL_SUCCESS)
         /\ last' = Op("alloc", m.err, r, c, shared, 0, 0, m.trace)
         /\ queues' = Observed(m.trace, q)
    /\ everAlloc' = TRUE
    /\ nwrites' = 0
    /\ UNCHANGED <<sameType, contexts>>

AllocStep == AllocOf(0..MaxRows, 0..MaxCols)

ClearStep ==
  /\ \E m \in {Clear(Machine)} :
     /\ Install(m)
     /\ last' = Op("clear", UCL_SUCCESS, 0, 0, FALSE, 0, 0, m.trace)
     /\ queues' = Observed(m.trace, 0)
  /\ valid' = FALSE
  /\ UNCHANGED <<sameType, everAlloc, nwrites, contexts>>

ZeroStep ==
  /\ valid
  /\ \E m \in {Zero(Machine)} :
     /\ Install(m)
     /\ last' = Op("zero", UCL_SUCCESS, 0, 0, FALSE, numel, 0, m.trace)
     /\ queues' = Observed(m.trace, 0)
  /\ UNCHANGED <<sameType, valid, everAlloc, nwrites, contexts>>

ZeroNStep ==
  /\ valid
  /\ \E n \in 0..numel :
     \E m \in {ZeroN(Machine, n)} :
       /\ Install(m)
       /\ last' = Op("zero_n", UCL_SUCCESS, 0, 0, FALSE, n, 0, m.trace)
       /\ queues' = Observed(m.trace, 0)
  /\ UNCHANGED <<sameType, valid, everAlloc, nwrites, contexts>>

\* m(row,col) = v
SetAtStep ==
  /\ valid
  /\ nwrites < MaxWrites
  /\ \E row \in 0..(rows - 1), col \in 0..(cols - 1), v \in Values :
     \E m \in {SetElement(Machine, FlatIndex(row, col), v)} :
       /\ Install(m)
       /\ last' = Op("set_at", UCL_SUCCESS, row, col, FALSE,
                     FlatIndex(row, col), v, m.trace)
       /\ queues' = Observed(m.trace, 0)
  /\ nwrites' = nwrites + 1
  /\ UNCHANGED <<sameType, valid, everAlloc, contexts>>

\* m[i] = v
SetIndexStep ==
  /\ valid
  /\ nwrites < MaxWrites
  /\ \E i \in 0..(numel - 1), v \in Values :
     \E m \in {SetElement(Machine, i, v)} :
       /\ Install(m)
       /\ last' = Op("set_index", UCL_SUCCESS, 0, 0, FALSE, i, v, m.trace)
       /\ queues' = Observed(m.trace, 0)
  /\ nwrites' = nwrites + 1
  /\ UNCHANGED <<sameType, valid, everAlloc, contexts>>

SyncStep ==
  /\ valid
  /\ \E m \in {Sync(Machine)} :
     /\ Install(m)
     /\ last' = Op("sync", UCL_SUCCESS, 0, 0, FALSE, WaitedFor, 0, m.trace)
     /\ queues' = Observed(m.trace, 0)
  /\ UNCHANGED <<sameType, valid, everAlloc, nwrites, contexts>>

\* The lifecycle: allocation, release, zeroing, synchronisation.
Next ==
  \/ AllocStep
  \/ ClearStep
  \/ ZeroStep
  \/ ZeroNStep
  \/ SyncStep

Spec == Init /\ [][Next]_vars

\* The lifecycle together with element writes through the accessors.
NextAccess ==
  \/ AllocStep
  \/ ClearStep
  \/ ZeroStep
  \/ ZeroNStep
  \/ SyncStep
  \/ SetAtStep
  \/ SetIndexStep

SpecAccess == Init /\ [][NextAccess]_vars

\* numel(), rows(), cols() or host_ptr(); numel() is what is recorded
QueryStep ==
  /\ \E m \in {Query(Machine)} :
     /\ Install(m)
     /\ last' = Op("query", UCL_SUCCESS, 0, 0, FALSE, numel, 0, m.trace)
     /\ queues' = Observed(m.trace, 0)
  /\ UNCHANGED <<sameType, valid, everAlloc, nwrites, contexts>>

\* The lifecycle, the element writes and the read-only accessors.
NextObserve ==
  \/ AllocStep
  \/ ClearStep
  \/ ZeroStep
  \/ ZeroNStep
  \/ SyncStep
  \/ SetAtStep
  \/ SetIndexStep
  \/ QueryStep

SpecObserve == Init /\ [][NextObserve]_vars

\* clear() taken as its two calls.  The first, host.clear(), leaves the
\* object inside clear(): last.op = "clear.host" until device.clear() has run.
InClear == last.op = "clear.host"

ClearHostStep ==
  /\ ~InClear
  /\ \E m \in {HostClear(Machine)} :
     /\ Install(m)
     /\ last' = Op("clear.host", UCL_SUCCESS, 0, 0, FALSE, 0, 0, m.trace)
     /\ queues' = Observed(m.trace, 0)
  /\ valid' = FALSE
  /\ UNCHANGED <<sameType, everAlloc, nwrites, contexts>>

\* the second call, device.clear(); clear() returns
ClearDeviceStep ==
  /\ InClear
  /\ \E m \in {DeviceClear([Machine EXCEPT !.trace = last.trace])} :
     /\ host' = m.host
     /\ device' = m.device
     /\ hostHeap' = m.hostHeap
     /\ devHeap' = m.devHeap
     /\ hostMem' = m.hostMem
     /\ devMem' = m.devMem
     /\ last' = Op("clear", UCL_SUCCESS, 0, 0, FALSE, 0, 0, m.trace)
     /\ queues' = Observed(m.trace, 0)
  /\ UNCHANGED <<sameType, valid, everAlloc, nwrites, contexts, pre>>

\* The lifecycle with clear() in two steps; no other operation of the object
\* starts while clear() is running.
NextClearSteps ==
  \/ ~InClear /\ AllocStep
  \/ ClearHostStep
  \/ ClearDeviceStep
  \/ ~InClear /\ ZeroStep
  \/ ~InClear /\ ZeroNStep
  \/ ~InClear /\ SyncStep

SpecClearSteps == Init /\ [][NextClearSteps]_vars

\* The members of a matrix before any allocation: UCL_Matrix() { }
Blank ==
  [host |-> [kind |-> UCL_VIEW, rows |-> 0, cols |-> 0, array |-> 0],
   device |-> [kind |-> UCL_VIEW, rows |-> 0, cols |-> 0, array |-> 0],
   hostHeap |-> {}, devHeap |-> {}, hostMem |-> <<>>, devMem |-> <<>>,
   err |-> UCL_SUCCESS, trace |-> <<>>]

\* The object after UCL_Matrix(rows, cols, device, kind1, kind2).  The
\* constructor returns no status: the caller may use the object when no
\* buffer allocation failed.
InitConstruct ==
  \E shared \in BOOLEAN, hostOk \in BOOLEAN, same \in BOOLEAN :
  \E kind1 \in (IF hostOk THEN HostKinds ELSE {"UCL_RW_OPTIMIZED"}),
     devOk \in (IF UseView(same, shared) THEN {TRUE} ELSE BOOLEAN) :
  \E kind2 \in (IF ~UseView(same, shared) /\ devOk
                 THEN DevKinds ELSE {"UCL_READ_WRITE"}),
     r \in 0..MaxRows, c \in 0..MaxCols :
  \E m \in {Construct(Blank, same, r, c, shared, kind1, kind2,
                       hostOk, devOk)} :
    /\ sameType = same
    /\ host = m.host
    /\ device = m.device
    /\ hostHeap = m.hostHeap
    /\ devHeap = m.devHeap
    /\ hostMem = m.hostMem
    /\ devMem = m.devMem
    /\ valid = (CountCalls(m.trace, "host.alloc_failed") = 0
                /\ CountCalls(m.trace, "device.alloc_failed") = 0)
    /\ everAlloc = TRUE
    /\ nwrites = 0
    /\ last = Op("construct_args", m.err, r, c, shared, 0, 0, m.trace)
    /\ pre = [afterClear |-> FALSE, valid |-> FALSE, everAlloc |-> FALSE,
              disposition |-> "UNSET", hostHeld |-> FALSE]
    /\ queues = [hostCq |-> 0, devCq |-> 0, pending |-> {}]
    /\ contexts = {}

SpecConstruct == InitConstruct /\ [][Next]_vars

\* Element access on a matrix constructed with a shape: every shape, every
\* index, no re-allocation.
NextIndex ==
  \/ SetAtStep
  \/ SetIndexStep

SpecIndex == InitConstruct /\ [][NextIndex]_vars

\* The lifecycle of a program that allocates on several command queues.
InitQueues ==
  /\ sameType \in BOOLEAN
  /\ host = [kind |-> UCL_VIEW, rows |-> 0, cols |-> 0, array |-> 0]
  /\ device = [kind |-> UCL_VIEW, rows |-> 0, cols |-> 0, array |-> 0]
  /\ hostHeap = {}
  /\ devHeap = {}
  /\ hostMem = <<>>
  /\ devMem = <<>>
  /\ valid = FALSE
  /\ everAlloc = FALSE
  /\ nwrites = 0
  /\ last = Op("construct", UCL_SUCCESS, 0, 0, FALSE, 0, 0, <<>>)
  /\ pre = [afterClear |-> FALSE, valid |-> FALSE, everAlloc |-> FALSE,
            disposition |-> "UNSET", hostHeld |-> FALSE]
  /\ queues = [hostCq |-> 0, devCq |-> 0, pending |-> {}]
  /\ contexts = 1..MaxQueue

\* The queues do not depend on the shape: every allocation of this program
\* has the largest one.
QueueAllocStep == AllocOf({MaxRows}, {MaxCols})

NextQueues ==
  \/ QueueAllocStep
  \/ ClearStep
  \/ ZeroStep
  \/ ZeroNStep
  \/ SyncStep

SpecQueues == InitQueues /\ [][NextQueues]_vars

\* ------------------------------------------------------------ type check
TypeOK ==
  /\ sameType \in BOOLEAN
  /\ host.rows \in 0..MaxRows /\ host.cols \in 0..MaxCols
  /\ device.rows \in 0..MaxRows /\ device.cols \in 0..MaxCols
  /\ hostHeap \subseteq Stores /\ devHeap \subseteq Stores
  /\ valid => (host.kind # UCL_VIEW /\ host.array \in hostHeap
               /\ Len(hostMem) = numel
               /\ (DeviceIsView(device) => ViewIsLive(Machine))
               /\ (DeviceOwns(device) => device.array \in devHeap
                                        /\ Len(devMem) = BufNumel(device)))

\* ------------------------------------------------------------ claims
AllocReturned == last.op = "alloc"
AllocSucceeded == last.op = "alloc" /\ last.ret = UCL_SUCCESS
HostAllocFailed == CountCalls(last.trace, "host.alloc_failed") > 0
DeviceAllocFailed == CountCalls(last.trace, "device.alloc_failed") > 0
DeviceCalls ==
  CountCalls(last.trace, "device.view") + CountCalls(last.trace, "device.alloc")
    + CountCalls(last.trace, "device.alloc_failed")
ZeroReturned == last.op \in {"zero", "zero_n"}
WriteReturned == last.op \in {"set_at", "set_index"}

\* the zeroing operations the last call issued against the storage st of the
\* memory space sp
ZeroingsOf(sp, st) ==
  Cardinality({i \in 1..Len(last.trace) :
                 /\ last.trace[i].call \in {"host.zero", "device.zero"}
                 /\ last.trace[i].space = sp
                 /\ last.trace[i].store = st})

\* C1: after a successful alloc the disposition is VIEW exactly when the
\* element types are equal and the device shares memory, and INDEPENDENT in
\* the three other combinations.
C1_DispositionIffSameTypeAndShared ==
  AllocSucceeded =>
    /\ (Disposition = "VIEW") <=> (sameType /\ last.shared)
    /\ (Disposition = "INDEPENDENT") <=> ~(sameType /\ last.shared)
    /\ CountCalls(last.trace, "device.view")
         = (IF sameType /\ last.shared THEN 1 ELSE 0)
    /\ CountCalls(last.trace, "device.alloc")
         = (IF sameType /\ last.shared THEN 0 ELSE 1)

C1_Witness_View ==
  AllocSucceeded /\ sameType /\ last.shared /\ Disposition = "VIEW"

\* C2 (as claimed): when the host allocation succeeds and the device
\* allocation fails, alloc returns an error and the matrix is left holding
\* nothing: no host storage, no device storage, numel() = 0.
C2_FailedDeviceAllocReleasesHost ==
  (AllocReturned /\ DeviceAllocFailed) =>
    /\ last.ret # UCL_SUCCESS
    /\ host.kind = UCL_VIEW
    /\ hostHeap = {}
    /\ devHeap = {}
    /\ numel = 0

\* C3: alloc touches the device buffer only after the host allocation has
\* succeeded; when the host allocation fails alloc returns its error, makes no
\* call on the device buffer, and numel() = 0.
C3_DeviceOnlyAfterHostSuccess ==
  AllocReturned =>
    /\ DeviceCalls > 0 =>
         /\ FirstCall(last.trace, "host.alloc") > 0
         /\ \A i \in 1..Len(last.trace) :
              last.trace[i].call \in {"device.view", "device.alloc",
                                      "device.alloc_failed", "device.free"}
                => FirstCall(last.trace, "host.alloc") < i
    /\ HostAllocFailed =>
         /\ last.ret = UCL_MEMORY_ERROR
         /\ DeviceCalls = 0
         /\ CountCalls(last.trace, "device.free") = 0
         /\ numel = 0

C3_Witness_HostFailureAfterAllocation ==
  AllocReturned /\ HostAllocFailed /\ pre.valid /\ DeviceCalls = 0

\* C4 (as claimed): in every reachable state the host buffer and the device
\* buffer report the same rows and the same cols.
C4_ShapesAgree ==
  /\ host.rows = device.rows
  /\ host.cols = device.cols

\* C5: clear() on a VIEW matrix issues no device free, clear() on an
\* INDEPENDENT matrix issues exactly one; in both cases the host storage is
\* released.
C5_ClearFreesDeviceOnlyIfIndependent ==
  last.op = "clear" =>
    /\ pre.disposition = "VIEW" =>
         CountCalls(last.trace, "device.free") = 0
    /\ pre.disposition = "INDEPENDENT" =>
         CountCalls(last.trace, "device.free") = 1
    /\ pre.hostHeld => CountCalls(last.trace, "host.free") = 1
    /\ pre.disposition \in {"VIEW", "INDEPENDENT"} =>
         /\ hostHeap = {}
         /\ devHeap = {}
         /\ host.kind = UCL_VIEW
         /\ Disposition = "UNSET"

C5_Witness_ClearOfView ==
  /\ last.op = "clear"
  /\ pre.valid
  /\ pre.disposition = "VIEW"
  /\ CountCalls(last.trace, "host.free") = 1

C7_ClearIdempotent ==
  (last.op = "clear" /\ (pre.afterClear \/ ~pre.everAlloc)) =>
    /\ last.ret = UCL_SUCCESS
    /\ last.trace = <<>>
    /\ numel = 0
    /\ hostHeap = {}
    /\ devHeap = {}

C7_Witness_SecondClear ==
  last.op = "clear" /\ pre.afterClear /\ pre.everAlloc

\* C8: each memory space never holds more than one live storage of the
\* matrix; a successful alloc, also one that follows alloc and clear, leaves
\* the requested shape and exactly the storage of that allocation.
C8_RoundTripLeavesOnlyNewAllocation ==
  /\ Cardinality(hostHeap) <= 1
  /\ Cardinality(devHeap) <= 1
  /\ AllocSucceeded =>
       /\ rows = last.rows /\ cols = last.cols
       /\ numel = last.rows * last.cols
       /\ hostHeap = {host.array}
       /\ devHeap = (IF Disposition = "VIEW" THEN {} ELSE {device.array})
       /\ Len(hostMem) = numel
       /\ Disposition = "VIEW" => device.array = host.array

C8_Witness_AllocClearAlloc ==
  /\ AllocSucceeded
  /\ pre.afterClear /\ pre.everAlloc
  /\ last.rows = 1 /\ last.cols = 2
  /\ Disposition = "INDEPENDENT"

\* C9 (as claimed): alloc on a matrix that is allocated releases the previous
\* host storage and, if the previous disposition was INDEPENDENT, the
\* previous device storage, each before the buffer acquires or aliases
\* storage anew; also when this alloc fails.
C9_ReallocReleasesPrevious ==
  (AllocReturned /\ pre.valid) =>
    /\ CountCalls(last.trace, "host.free") = 1
    /\ \A i \in 1..Len(last.trace) :
         last.trace[i].call = "host.alloc"
           => FirstCall(last.trace, "host.free") < i
    /\ pre.disposition = "INDEPENDENT" =>
         /\ CountCalls(last.trace, "device.free") = 1
         /\ \A i \in 1..Len(last.trace) :
              last.trace[i].call \in {"device.alloc", "device.view"}
                => FirstCall(last.trace, "device.free") < i

\* C10: a value written through the host accessor is what the device-side
\* accessor reads at that position exactly when the disposition is VIEW; when
\* it is INDEPENDENT the device buffer owns storage of its own, which the
\* write leaves as it was.
C10_HostWriteVisibleIffView ==
  WriteReturned =>
    /\ HostCell(last.n) = {last.val}
    /\ (Disposition = "VIEW") <=> (DeviceCell(last.n) = {last.val})
    /\ Disposition = "INDEPENDENT" =>
         /\ DeviceOwns(device)
         /\ device.array \in devHeap
         /\ devMem[last.n + 1] # {last.val}
    /\ Disposition \in {"VIEW", "INDEPENDENT"}

C10_Witness_WriteSeenThroughView ==
  /\ last.op = "set_at"
  /\ Disposition = "VIEW"
  /\ last.rows = 1 /\ last.cols = 1
  /\ DeviceCell(3) = {last.val}

\* C11: after a successful alloc(rows, cols, ...) the matrix reports
\* numel() = rows*cols, rows() = rows and cols() = cols, and the device buffer
\* reports the same three values; for every shape, the empty ones included.
C11_ShapeAfterAlloc ==
  AllocSucceeded =>
    /\ numel = last.rows * last.cols
    /\ rows = last.rows
    /\ cols = last.cols
    /\ BufNumel(device) = last.rows * last.cols
    /\ device.rows = last.rows
    /\ device.cols = last.cols

C11_Witness_RectangularIndependent ==
  /\ AllocSucceeded
  /\ Disposition = "INDEPENDENT"
  /\ pre.valid
  /\ rows = 2 /\ cols = 1 /\ BufNumel(device) = 2

\* C12: zero() leaves every element at(i), i in [0, numel()), equal to zero;
\* zero(n) with n < numel() leaves the elements [0, n) equal to zero and every
\* element of [n, numel()) holding the value it had before the call.
C12_ZeroSetsAndZeroNFrames ==
  [][/\ last'.op = "zero" =>
          \A i \in 1..numel' : hostMem'[i] = {0}
     /\ (last'.op = "zero_n" /\ last'.n < numel') =>
          /\ numel' = numel
          /\ \A i \in 1..last'.n : hostMem'[i] = {0}
          /\ \A i \in (last'.n + 1)..numel' : hostMem'[i] = hostMem[i]]_vars

C12_Witness_WrittenElementSurvivesZeroN ==
  /\ last.op = "zero_n"
  /\ 0 < last.n /\ last.n < numel
  /\ HostCell(0) = {0}
  /\ \E i \in last.n..(numel - 1), v \in Values : HostCell(i) = {v}

\* C13: when sync() returns, no work enqueued before the call is left running
\* on the queue of the matrix (the host buffer's); the device buffer is bound
\* to that same queue, so the work of the device-side zero of an INDEPENDENT
\* matrix has completed too.
C13_SyncCompletesDeviceWork ==
  /\ valid => queues.devCq = queues.hostCq /\ queues.hostCq \in contexts
  /\ last.op = "sync" =>
       /\ queues.hostCq \notin queues.pending
       /\ queues.devCq \notin queues.pending

C13_Witness_SyncAfterDeviceZero ==
  /\ last.op = "sync"
  /\ last.n = 1
  /\ Disposition = "INDEPENDENT"
  /\ queues.hostCq = 2
  /\ queues.pending = {1}

\* C14 (as claimed): the matrix is always UNALLOCATED, ALLOCATED{VIEW} or
\* ALLOCATED{INDEPENDENT}: the disposition is VIEW or INDEPENDENT exactly
\* when storage is held, and after clear() and after a failed alloc the
\* disposition is unset and rows(), cols() and numel() are all zero.
C14_LifecycleStates ==
  /\ (Disposition \in {"VIEW", "INDEPENDENT"})
       <=> (hostHeap # {} \/ devHeap # {})
  /\ (last.op = "clear" \/ (AllocReturned /\ last.ret # UCL_SUCCESS)) =>
       /\ Disposition = "UNSET"
       /\ rows = 0
       /\ cols = 0
       /\ numel = 0

\* C15: when the host allocation succeeds and the types are equal and the
\* device shares memory, alloc requests no device storage, binds the device
\* buffer as an alias of the host buffer's storage, and returns success.
C15_ViewRequestsNoDeviceStorage ==
  (AllocReturned /\ ~HostAllocFailed /\ sameType /\ last.shared) =>
    /\ last.ret = UCL_SUCCESS
    /\ CountCalls(last.trace, "device.alloc") = 0
    /\ CountCalls(last.trace, "device.alloc_failed") = 0
    /\ CountCalls(last.trace, "device.view") = 1
    /\ devHeap = {}
    /\ DeviceIsView(device)
    /\ device.array = host.array
    /\ host.array \in hostHeap
    /\ ViewIsLive(Machine)

C15_Witness_ViewAfterIndependent ==
  /\ AllocSucceeded
  /\ sameType /\ last.shared
  /\ pre.disposition = "INDEPENDENT"
  /\ CountCalls(last.trace, "device.free") = 1
  /\ CountCalls(last.trace, "device.view") = 1

C17_OnlyAllocAndClearChangeShape ==
  [][last'.op \notin {"alloc", "clear"} =>
       /\ last'.op \in {"zero", "zero_n", "sync", "set_at", "set_index",
                        "query"}
       /\ host' = host
       /\ device' = device
       /\ hostHeap' = hostHeap
       /\ devHeap' = devHeap
       /\ valid' = valid]_vars

C17_Witness_QueryAfterWrite ==
  /\ last.op = "query"
  /\ valid
  /\ nwrites = 1
  /\ Disposition = "VIEW"
  /\ last.n = 4

\* C18 (as claimed): clear() taken as its two steps never passes through a
\* state in which the device buffer is still bound as a view of host storage
\* that has already been released.
C18_NoDanglingViewInsideClear ==
  InClear => ~(DeviceIsView(device) /\ device.array \notin hostHeap)

\* C19 (as claimed): UCL_Matrix(rows, cols, device, kind1, kind2) leaves the
\* object as UCL_Matrix() followed by alloc with the same arguments does, for
\* every type equality, capability and allocation outcome: the same buffers,
\* the same storage, the same buffer calls; in particular no device
\* allocation and no view when the host allocation fails.
C19_ConstructorActsAsAlloc ==
  last.op = "construct_args" =>
    /\ \E kind1 \in HostKinds, kind2 \in DevKinds,
          hostOk \in BOOLEAN, devOk \in BOOLEAN :
         \E a \in {Alloc(Blank, sameType, last.rows, last.cols, last.shared,
                         kind1, kind2, hostOk, devOk)} :
           /\ a.trace = last.trace
           /\ a.host = host
           /\ a.device = device
           /\ a.hostHeap = hostHeap
           /\ a.devHeap = devHeap
    /\ HostAllocFailed => DeviceCalls = 0

=============================================================================
